---- MODULE Spec2Model ----
(***************************************************************************)
(* Model of the Telegram movie delivery bot (src/main.py).                 *)
(*                                                                         *)
(* State: the `movies` table (a set of rows), SQLite's AUTOINCREMENT       *)
(* sequence, the wall clock, one task per inbound update (its handler, its *)
(* position between two awaits, its locals), the detached cleanup tasks    *)
(* and the messaging backend's message-id counter.                         *)
(*                                                                         *)
(* Execution model: webhook() (lines 442-458) hands every update to        *)
(* asyncio.create_task(app.process_update(update)), so handlers are        *)
(* cooperative tasks of one event loop: the code between two awaits is one *)
(* atomic step, and tasks interleave only at an await.  Every database     *)
(* helper is synchronous (connect, execute, commit, close), so it is part  *)
(* of the step that calls it.  A terminal reply_text (the last statement   *)
(* of a handler, nothing after it) is recorded as the text handed to the   *)
(* backend in the step that issues it.                                     *)
(***************************************************************************)
EXTENDS Integers, Sequences, FiniteSets, TLC

\* ---------------------------------------------------------------- bounds
\* Number of inbound updates (one task each) of a run.
MaxUpdates == 2
\* Last instant of the wall clock, in seconds since the start of the run.
MaxTime == 1

Updates == 1..MaxUpdates

\* ------------------------------------------------------------- constants
\* ADMIN_IDS, line 27, and one sender that is not in it.
ADMIN_IDS == {1963601117}
Users == ADMIN_IDS \cup {42}

\* EXPIRY_SECONDS, line 29.
EXPIRY_SECONDS == 15 * 60

\* The values secrets.token_urlsafe(12) may return: two of them, so that a
\* freshly generated token can equal a stored one.
Tokens == {<<"a">>, <<"b">>}

\* ------------------------------------------------------- optional values
\* Python's None and a present value v.
None == <<>>
Some(v) == <<v>>
Val(o) == o[1]

\* Python truthiness of an optional string / optional integer.
TruthyStr(o) == o # None /\ Val(o) # ""
TruthyInt(o) == o # None /\ Val(o) # 0
\* a or b, on optional strings.
OrStr(a, b) == IF TruthyStr(a) THEN a ELSE b

\* datetime.isoformat() and datetime.fromisoformat(): the stored text of an
\* instant and the instant it parses back to.
isoformat(t) == [iso |-> t]
fromisoformat(s) == s.iso

\* ------------------------------------------------------ /register arguments
\* An argument of a command is a string, modelled as the sequence of its
\* characters (context.args is message.text.split()[1:]).
Digits == {"0", "1", "2", "3", "4", "5", "6", "7", "8", "9"}

DigitVal(c) ==
    CASE c = "0" -> 0 [] c = "1" -> 1 [] c = "2" -> 2 [] c = "3" -> 3
      [] c = "4" -> 4 [] c = "5" -> 5 [] c = "6" -> 6 [] c = "7" -> 7
      [] c = "8" -> 8 [] OTHER -> 9

\* str.lower(), on the letters the arguments of the model use.
LowerChar(c) ==
    CASE c = "S" -> "s" [] c = "M" -> "m" [] c = "H" -> "h" [] c = "D" -> "d"
      [] c = "X" -> "x" [] OTHER -> c

lower(a) == [i \in 1..Len(a) |-> LowerChar(a[i])]

\* str.strip(): leading and trailing blanks removed.
RECURSIVE lstrip(_)
lstrip(a) == IF a # <<>> /\ Head(a) = " " THEN lstrip(Tail(a)) ELSE a

RECURSIVE rstrip(_)
rstrip(a) ==
    IF a # <<>> /\ a[Len(a)] = " " THEN rstrip(SubSeq(a, 1, Len(a) - 1)) ELSE a

strip(a) == rstrip(lstrip(a))

\* re.fullmatch(r"\d+", a)
IsDigits(a) == Len(a) >= 1 /\ \A i \in 1..Len(a) : a[i] \in Digits

\* int(a) of a string of digits.
RECURSIVE int(_)
int(a) == IF a = <<>> THEN 0 ELSE 10 * int(SubSeq(a, 1, Len(a) - 1)) + DigitVal(a[Len(a)])

\* re.fullmatch(r"(\d+)([smhd])", a)
IsDuration(a) ==
    /\ Len(a) >= 2
    /\ IsDigits(SubSeq(a, 1, Len(a) - 1))
    /\ a[Len(a)] \in {"s", "m", "h", "d"}

\* timedelta(seconds|minutes|hours|days = num), in seconds.
timedelta(num, unit) ==
    CASE unit = "s" -> num
      [] unit = "m" -> num * 60
      [] unit = "h" -> num * 3600
      [] OTHER      -> num * 86400

\* One iteration of the loop of parse_args_for_register (lines 148-171) on
\* argument arg, at wall-clock time t; acc is <<uses_allowed, expires_at_iso>>.
\* "if delta:" is false for a zero timedelta, which then sets nothing.
ParseArg(acc, arg, t) ==
    LET a == lower(strip(arg)) IN
    IF IsDigits(a) THEN <<int(a), acc[2]>>
    ELSE IF IsDuration(a) THEN
        LET delta == timedelta(int(SubSeq(a, 1, Len(a) - 1)), a[Len(a)]) IN
        IF delta # 0 THEN <<acc[1], Some(isoformat(t + delta))>> ELSE acc
    ELSE acc

RECURSIVE ParseArgsFrom(_, _, _)
ParseArgsFrom(acc, args, t) ==
    IF args = <<>> THEN acc
    ELSE ParseArgsFrom(ParseArg(acc, Head(args), t), Tail(args), t)

\* parse_args_for_register(args) at wall-clock time t: <<uses_allowed, expires_at_iso>>.
parse_args_for_register(args, t) == ParseArgsFrom(<<-1, None>>, args, t)

\* ------------------------------------------------------------- messages
\* A telegram Message as the registration code reads it: text, caption,
\* forward origin and the four attachments, each None or present.  An
\* attachment is [file_id, file_name].
Msg(text, caption, fchat, fmsg, doc, vid, anim, aud) ==
    [text |-> text, caption |-> caption,
     forward_from_chat |-> fchat, forward_from_message_id |-> fmsg,
     document |-> doc, video |-> vid, animation |-> anim, audio |-> aud]

File(id, name) == [file_id |-> id, file_name |-> name]

\* The chat object of a forward origin.
Chat(id) == [id |-> id]

\* The forward origins of a message: none; a channel post (the chat and the
\* id of the post); a chat without a post id.
ForwardOrigins ==
    { <<None, None>>, <<Some(Chat(-1001)), Some(77)>>, <<Some(Chat(-1001)), None>> }

\* The attachments of a message, as <<document, video, animation, audio>>:
\* none, a document, a video or an audio with or without a file name, an
\* animation (on which the backend sets `document` as well).
Attachments ==
    { <<None, None, None, None>> }
    \cup { <<Some(File("doc1", name)), None, None, None>> : name \in {None, Some("movie.mkv")} }
    \cup { <<None, Some(File("vid1", name)), None, None>> : name \in {None, Some("clip.mp4")} }
    \cup { <<Some(File("gif1", name)), None, Some(File("gif1", name)), None>> :
             name \in {None, Some("anim.mp4")} }
    \cup { <<None, None, None, Some(File("aud1", name))>> : name \in {None, Some("song.mp3")} }

\* The messages an update may carry: a text (plain, or an unregistered
\* command) without attachment, or an attachment with or without a caption,
\* each with any forward origin.
Messages ==
    { Msg(text, None, f[1], f[2], None, None, None, None) :
        text \in {Some(<<"h", "i">>), Some(<<"/", "x">>)}, f \in ForwardOrigins }
    \cup { Msg(None, caption, f[1], f[2], a[1], a[2], a[3], a[4]) :
             caption \in {None, Some("a caption")}, f \in ForwardOrigins,
             a \in Attachments \ { <<None, None, None, None>> } }

\* getattr(o, "id" | "file_id" | "file_name", None) of an optional object.
AttrId(o) == IF o = None THEN None ELSE Some(Val(o).id)
AttrFileName(o) == IF o = None THEN None ELSE Val(o).file_name

\* What the media detection yields: None, or the delivery fields of a record.
Media(send_method, file_id, from_chat_id, from_message_id, filename) ==
    [send_method |-> send_method, file_id |-> file_id,
     from_chat_id |-> from_chat_id, from_message_id |-> from_message_id,
     filename |-> filename]

\* The forward branch also storing the document's file_id.
RegisterMedia_KeepsFileId(target) ==
    LET forward_chat_id == AttrId(target.forward_from_chat)
        forward_msg_id == target.forward_from_message_id
        media == CHOOSE a \in {target.document, target.video, target.animation,
                               target.audio, Some(File("", None))} :
                     a # None
    IN
    IF TruthyInt(forward_chat_id) /\ TruthyInt(forward_msg_id) THEN
        Some(Media("copy", Some(Val(media).file_id), forward_chat_id, forward_msg_id,
                   Val(OrStr(AttrFileName(target.document),
                             OrStr(target.caption, Some("file"))))))
    ELSE IF target.document # None THEN
        Some(Media("file", Some(Val(target.document).file_id), None, None,
                   Val(OrStr(Val(target.document).file_name, Some("file")))))
    ELSE IF target.video # None THEN
        Some(Media("file", Some(Val(target.video).file_id), None, None,
                   Val(OrStr(target.caption, Some("video.mp4")))))
    ELSE IF target.animation # None THEN
        Some(Media("file", Some(Val(target.animation).file_id), None, None,
                   Val(OrStr(target.caption, Some("animation.mp4")))))
    ELSE IF target.audio # None THEN
        Some(Media("file", Some(Val(target.audio).file_id), None, None,
                   Val(OrStr(target.caption,
                             OrStr(Val(target.audio).file_name, Some("audio"))))))
    ELSE None

\* The final else without its reply and return: a message without media is
\* registered as a file without content.
RegisterMedia_NoRefusal(target) ==
    LET forward_chat_id == AttrId(target.forward_from_chat)
        forward_msg_id == target.forward_from_message_id
        media == CHOOSE a \in {target.document, target.video, target.animation,
                               target.audio, Some(File("", None))} :
                     a # None
    IN
    IF TruthyInt(forward_chat_id) /\ TruthyInt(forward_msg_id) THEN
        Some(Media("copy", None, forward_chat_id, forward_msg_id,
                   Val(OrStr(AttrFileName(target.document),
                             OrStr(target.caption, Some("file"))))))
    ELSE IF target.document # None THEN
        Some(Media("file", Some(Val(target.document).file_id), None, None,
                   Val(OrStr(Val(target.document).file_name, Some("file")))))
    ELSE IF target.video # None THEN
        Some(Media("file", Some(Val(target.video).file_id), None, None,
                   Val(OrStr(target.caption, Some("video.mp4")))))
    ELSE IF target.animation # None THEN
        Some(Media("file", Some(Val(target.animation).file_id), None, None,
                   Val(OrStr(target.caption, Some("animation.mp4")))))
    ELSE IF target.audio # None THEN
        Some(Media("file", Some(Val(target.audio).file_id), None, None,
                   Val(OrStr(target.caption,
                             OrStr(Val(target.audio).file_name, Some("audio"))))))
    ELSE Some(Media("file", None, None, None,
                    Val(OrStr(Val(media).file_name, OrStr(target.caption, Some("file"))))))

\* register_cmd, lines 263-297, on the replied-to message: None when the
\* handler replies "Reply must contain a file/document." and returns.
\* Lines 290-294 cannot run: every attachment is None there.
RegisterMedia(target) ==
    LET forward_chat_id == AttrId(target.forward_from_chat)
        forward_msg_id == target.forward_from_message_id
    IN
    IF TruthyInt(forward_chat_id) /\ TruthyInt(forward_msg_id) THEN
        Some(Media("copy", None, forward_chat_id, forward_msg_id,
                   Val(OrStr(AttrFileName(target.document),
                             OrStr(target.caption, Some("file"))))))
    ELSE IF target.document # None THEN
        Some(Media("file", Some(Val(target.document).file_id), None, None,
                   Val(OrStr(Val(target.document).file_name, Some("file")))))
    ELSE IF target.video # None THEN
        Some(Media("file", Some(Val(target.video).file_id), None, None,
                   Val(OrStr(target.caption, Some("video.mp4")))))
    ELSE IF target.animation # None THEN
        Some(Media("file", Some(Val(target.animation).file_id), None, None,
                   Val(OrStr(target.caption, Some("animation.mp4")))))
    ELSE IF target.audio # None THEN
        Some(Media("file", Some(Val(target.audio).file_id), None, None,
                   Val(OrStr(target.caption,
                             OrStr(Val(target.audio).file_name, Some("audio"))))))
    ELSE None

\* The attachments inspected before the forward origin.
AutoMedia_AttachmentFirst(target) ==
    LET forward_chat == target.forward_from_chat
        forward_chat_id == IF forward_chat # None THEN AttrId(forward_chat) ELSE None
        forward_msg_id == target.forward_from_message_id
    IN
    IF target.document # None THEN
        Some(Media("file", Some(Val(target.document).file_id), None, None,
                   Val(OrStr(Val(target.document).file_name, Some("file")))))
    ELSE IF target.video # None THEN
        Some(Media("file", Some(Val(target.video).file_id), None, None,
                   Val(OrStr(target.caption, Some("video.mp4")))))
    ELSE IF target.animation # None THEN
        Some(Media("file", Some(Val(target.animation).file_id), None, None,
                   Val(OrStr(target.caption, Some("animation.mp4")))))
    ELSE IF target.audio # None THEN
        Some(Media("file", Some(Val(target.audio).file_id), None, None,
                   Val(OrStr(target.caption,
                             OrStr(Val(target.audio).file_name, Some("audio"))))))
    ELSE IF TruthyInt(forward_chat_id) /\ TruthyInt(forward_msg_id) THEN
        Some(Media("copy", None, forward_chat_id, forward_msg_id,
                   Val(OrStr(target.caption, Some("file")))))
    ELSE None

\* auto_register_on_admin_message, lines 332-369, on the message itself:
\* None when the handler returns silently.
AutoMedia(target) ==
    LET forward_chat == target.forward_from_chat
        forward_chat_id == IF forward_chat # None THEN AttrId(forward_chat) ELSE None
        forward_msg_id == target.forward_from_message_id
    IN
    IF TruthyInt(forward_chat_id) /\ TruthyInt(forward_msg_id) THEN
        Some(Media("copy", None, forward_chat_id, forward_msg_id,
                   IF target.document # None /\ TruthyStr(Val(target.document).file_name)
                   THEN Val(Val(target.document).file_name)
                   ELSE Val(OrStr(target.caption, Some("file")))))
    ELSE IF target.document # None THEN
        Some(Media("file", Some(Val(target.document).file_id), None, None,
                   Val(OrStr(Val(target.document).file_name, Some("file")))))
    ELSE IF target.video # None THEN
        Some(Media("file", Some(Val(target.video).file_id), None, None,
                   Val(OrStr(target.caption, Some("video.mp4")))))
    ELSE IF target.animation # None THEN
        Some(Media("file", Some(Val(target.animation).file_id), None, None,
                   Val(OrStr(target.caption, Some("animation.mp4")))))
    ELSE IF target.audio # None THEN
        Some(Media("file", Some(Val(target.audio).file_id), None, None,
                   Val(OrStr(target.caption,
                             OrStr(Val(target.audio).file_name, Some("audio"))))))
    ELSE None

\* ----------------------------------------------------------- the database
\* A row of table movies (lines 45-58).  Column added_at, which only the text
\* of /list reads, is left out.
Row(id, token, media, added_by, uses_allowed, used_count, expires_at) ==
    [id |-> id, token |-> token, send_method |-> media.send_method,
     file_id |-> media.file_id, from_chat_id |-> media.from_chat_id,
     from_message_id |-> media.from_message_id, filename |-> media.filename,
     added_by |-> added_by,
     uses_allowed |-> uses_allowed, used_count |-> used_count,
     expires_at |-> expires_at]

\* The column declared without UNIQUE: no INSERT is refused.
UniqueViolation_Never(m, token) == FALSE

\* "token TEXT UNIQUE" (line 47): the INSERT of a stored token raises
\* sqlite3.IntegrityError.
UniqueViolation(m, token) == \E r \in m : r.token = token

\* The tuple of the INSERT with from_message_id ahead of from_chat_id.
add_movie_record_ColumnsSwapped(m, id, token, media, added_by, uses_allowed, expires_at) ==
    m \cup {[Row(id, token, media, added_by, uses_allowed, 0, expires_at)
               EXCEPT !.from_chat_id = media.from_message_id,
                      !.from_message_id = media.from_chat_id]}

\* add_movie_record (lines 65-99) on table m, the row taking the next
\* AUTOINCREMENT id; used_count is the literal 0 of the INSERT.
add_movie_record(m, id, token, media, added_by, uses_allowed, expires_at) ==
    m \cup {Row(id, token, media, added_by, uses_allowed, 0, expires_at)}

\* The columns get_movie_by_token selects (line 107).
Selected(r) ==
    [id |-> r.id, token |-> r.token, send_method |-> r.send_method,
     file_id |-> r.file_id, from_chat_id |-> r.from_chat_id,
     from_message_id |-> r.from_message_id, filename |-> r.filename,
     uses_allowed |-> r.uses_allowed, used_count |-> r.used_count,
     expires_at |-> r.expires_at]

\* get_movie_by_token (lines 102-114): fetchone() of the rows with the token.
get_movie_by_token(m, token) ==
    IF \E r \in m : r.token = token
    THEN Some(Selected(CHOOSE r \in m : r.token = token))
    ELSE None

\* The UPDATE guarded by the quota: a compare-and-increment.
increment_if_quota_left(m, movie_id) ==
    { IF r.id = movie_id /\ (r.uses_allowed = -1 \/ r.used_count < r.uses_allowed)
      THEN [r EXCEPT !.used_count = @ + 1] ELSE r : r \in m }

\* The UPDATE without its WHERE clause: every row is incremented.
increment_every_row(m, movie_id) == { [r EXCEPT !.used_count = @ + 1] : r \in m }

\* The UPDATE followed by a purge of the rows whose quota is used up.
increment_and_purge(m, movie_id) ==
    { r \in { IF q.id = movie_id THEN [q EXCEPT !.used_count = @ + 1] ELSE q : q \in m } :
        r.uses_allowed = -1 \/ r.used_count < r.uses_allowed }

\* increment_used_count (lines 117-122):
\* UPDATE movies SET used_count = used_count + 1 WHERE id = ?
increment_used_count(m, movie_id) ==
    { IF r.id = movie_id THEN [r EXCEPT !.used_count = @ + 1] ELSE r : r \in m }

\* The DELETE without its commit: the row stays.
remove_without_commit(m, token) == m

\* remove_movie_by_token (lines 125-130): DELETE FROM movies WHERE token = ?
remove_movie_by_token(m, token) == { r \in m : r.token # token }

\* list_movies_all (lines 133-141).
list_movies_all(m) == m

\* The messages and /register argument lists of the runs that interleave
\* handlers: a plain text, an uploaded document, a forwarded channel post
\* with a video; no limit, a quota of 1, a quota of 1 with an expiry.
CoreMessages ==
    { Msg(Some(<<"h", "i">>), None, None, None, None, None, None, None),
      Msg(None, None, None, None,
          Some(File("doc1", Some("movie.mkv"))), None, None, None),
      Msg(None, None, Some(Chat(-1001)), Some(77),
          None, Some(File("vid1", None)), None, None) }

CoreArgs == { <<>>, << <<"1">> >>, << <<"1">>, <<"1", "s">> >> }

\* What /register by an admin, in reply to message msg with arguments args
\* and drawing token tok, adds to table m as row number id, at time t.
Registered(m, id, tok, msg, args, t) ==
    LET parsed == parse_args_for_register(args, t) IN
    add_movie_record(m, id, tok, Val(RegisterMedia(msg)),
                     CHOOSE a \in ADMIN_IDS : TRUE, parsed[1], parsed[2])

\* The tables an earlier run can have left behind, its registrations made one
\* second before this run starts and none redeemed yet: no row; one row, an
\* uploaded document under each argument list or with a quota of 0; two rows,
\* a document with a quota of 1 and a forwarded post without limits.
PersistedStores ==
    {{}}
    \cup { Registered({}, 1, <<"a">>, msg, args, -1) :
             msg \in { m \in CoreMessages : m.document # None },
             args \in CoreArgs \cup { << <<"0">> >> } }
    \cup { Registered(Registered({}, 1, <<"a">>, doc, << <<"1">> >>, -1),
                      2, <<"b">>, fwd, <<>>, -1) :
             doc \in { m \in CoreMessages : m.document # None },
             fwd \in { m \in CoreMessages : m.forward_from_chat # None } }

\* ------------------------------------------------------------------ state
VARIABLES
    movies,            \* the rows of table movies
    sqlite_sequence,   \* the largest id AUTOINCREMENT has assigned
    now,               \* datetime.utcnow(), in seconds
    task,              \* per update: the handler's position and locals
    cleanups,          \* the schedule_deletion tasks created so far
    next_message_id    \* the id the backend gives the next message it sends

vars == <<movies, sqlite_sequence, now, task, cleanups, next_message_id>>

\* A task before its update has arrived.  Of a handler's locals the task keeps
\* those a later step or a stated property reads: the sender, the arguments
\* of /start and /remove, the token a registration drew, the row /start
\* fetched, the backend call it chose,
\* the messages it sent, the text of its last reply, and the exception that
\* left the handler, if one did.
Idle ==
    [pc |-> "idle", handler |-> "none", user |-> 0, args |-> <<>>,
     token |-> None, row |-> None, call |-> "", reply |-> "", raised |-> "",
     sent_message |-> None, warn |-> None]

\* init_db (lines 40-62): CREATE TABLE IF NOT EXISTS keeps the rows that
\* earlier runs of the bot left in movies.db; no update received yet, and no
\* cleanup task survives a restart.
Init ==
    /\ movies \in PersistedStores
    /\ sqlite_sequence = Cardinality(movies)
    /\ now = 0
    /\ task = [h \in Updates |-> Idle]
    /\ cleanups = {}
    /\ next_message_id = 1

\* Updates arrive in the order of their numbers.
Arrives(h) ==
    /\ task[h].pc = "idle"
    /\ \A g \in Updates : g < h => task[g].pc # "idle"

Finished(h) == task[h].pc \in {"done", "crashed"}

\* The handler of update h returns after handing text to reply_text.
Reply(t, text) == [t EXCEPT !.pc = "done", !.reply = text]

\* An exception leaves the handler of update h.
Raise(t, exception) == [t EXCEPT !.pc = "crashed", !.raised = exception]

\* ------------------------------------------------------------ /start
\* The admin check left out.
IsAdmin_Anyone(user) == TRUE

\* user.id not in ADMIN_IDS is false (lines 253, 321, 394, 416).
IsAdmin(user) == user \in ADMIN_IDS

\* Lines 213-220: the stored expiry has passed at time t.
Expired(row, t) ==
    /\ row.expires_at # None
    /\ t > fromisoformat(Val(row.expires_at))

\* The quota compared with > instead of >=.
Exhausted_OffByOne(row) == row.uses_allowed # -1 /\ row.used_count > row.uses_allowed

\* Line 222.
Exhausted(row) == row.uses_allowed # -1 /\ row.used_count >= row.uses_allowed

\* The two checks in the other order.
StartCheck_QuotaFirst(row, t) ==
    IF row.uses_allowed # -1 /\ row.used_count >= row.uses_allowed
    THEN "Sorry - link used maximum times."
    ELSE IF row.expires_at # None /\ t > fromisoformat(Val(row.expires_at))
    THEN "Sorry - this link expired."
    ELSE ""

\* Lines 213-224: the reply that ends the handler, or "" to go on to deliver.
StartCheck(row, t) ==
    IF Expired(row, t) THEN "Sorry - this link expired."
    ELSE IF Exhausted(row) THEN "Sorry - link used maximum times."
    ELSE ""

\* start_cmd, lines 200-228, up to its first await.
StartCmd(h, user, args) ==
    /\ Arrives(h)
    /\ LET t0 == [Idle EXCEPT !.handler = "start", !.user = user, !.args = args]
           row == get_movie_by_token(movies, args[1])
       IN
       task' = [task EXCEPT ![h] =
           IF args = <<>> THEN
               Reply(t0, "Welcome. Click a deep-link or use /start <token>.")
           ELSE IF row = None THEN Reply(t0, "Invalid or expired link.")
           ELSE IF StartCheck(Val(row), now) # "" THEN
               Reply([t0 EXCEPT !.row = row], StartCheck(Val(row), now))
           ELSE [t0 EXCEPT !.row = row, !.pc = "chat_action"]]
    /\ UNCHANGED <<movies, sqlite_sequence, now, cleanups, next_message_id>>

\* Line 234: which backend call delivers the row.
DeliveryCall(row) ==
    IF row.send_method = "copy" /\ TruthyInt(row.from_chat_id)
       /\ TruthyInt(row.from_message_id)
    THEN "copy_message" ELSE "reply_document"

\* Lines 227-235/238: send_chat_action returns or raises (swallowed), and the
\* handler calls copy_message or reply_document.
ChatActionReturns(h, ok) ==
    /\ task[h].pc = "chat_action"
    /\ task' = [task EXCEPT ![h].pc = "deliver",
                             ![h].call = DeliveryCall(Val(task[h].row))]
    /\ UNCHANGED <<movies, sqlite_sequence, now, cleanups, next_message_id>>

\* Lines 233-243: the delivery call returns the sent message (ok) and the
\* handler sends the warning, or raises and the handler replies and returns.
DeliverReturns(h, ok) ==
    /\ task[h].pc = "deliver"
    /\ IF ok
       THEN /\ task' = [task EXCEPT ![h].pc = "warn",
                                    ![h].sent_message = Some(next_message_id)]
            /\ next_message_id' = next_message_id + 1
       ELSE /\ task' = [task EXCEPT ![h] =
                           Reply(@, "Failed to deliver file. Contact admin.")]
            /\ UNCHANGED next_message_id
    /\ UNCHANGED <<movies, sqlite_sequence, now, cleanups>>

\* Line 248: the detached task schedule_deletion(context, chat_id, *ids),
\* which sleeps EXPIRY_SECONDS first (line 176); `attempted` lists the
\* delete_message calls that have returned, each with its outcome.
Cleanup(h, chat_id, ids, t) ==
    [by |-> h, chat_id |-> chat_id, message_ids |-> ids, wake |-> t + EXPIRY_SECONDS,
     pc |-> "sleep", attempted |-> <<>>]

\* The increment written as the count read at the lookup plus one:
\* UPDATE movies SET used_count = ? WHERE id = ?
WarnReturns_WritesReadCount(h, ok) ==
    /\ task[h].pc = "warn"
    /\ IF ok
       THEN /\ task' = [task EXCEPT ![h].pc = "done",
                                    ![h].warn = Some(next_message_id)]
            /\ next_message_id' = next_message_id + 1
            /\ movies' = { IF r.id = Val(task[h].row).id
                           THEN [r EXCEPT !.used_count = Val(task[h].row).used_count + 1]
                           ELSE r : r \in movies }
            /\ cleanups' = cleanups \cup
                   {Cleanup(h, task[h].user,
                            <<Val(task[h].sent_message), next_message_id>>, now)}
       ELSE /\ task' = [task EXCEPT ![h] = Raise(@, "telegram.error.TelegramError")]
            /\ UNCHANGED <<movies, cleanups, next_message_id>>
    /\ UNCHANGED <<sqlite_sequence, now>>

\* Lines 243-248: the warning's reply_text returns the sent message (ok): the
\* handler increments used_count and creates the cleanup task; or it raises,
\* and the exception leaves the handler.
WarnReturns(h, ok) ==
    /\ task[h].pc = "warn"
    /\ IF ok
       THEN /\ task' = [task EXCEPT ![h].pc = "done",
                                    ![h].warn = Some(next_message_id)]
            /\ next_message_id' = next_message_id + 1
            /\ movies' = increment_used_count(movies, Val(task[h].row).id)
            /\ cleanups' = cleanups \cup
                   {Cleanup(h, task[h].user,
                            <<Val(task[h].sent_message), next_message_id>>, now)}
       ELSE /\ task' = [task EXCEPT ![h] = Raise(@, "telegram.error.TelegramError")]
            /\ UNCHANGED <<movies, cleanups, next_message_id>>
    /\ UNCHANGED <<sqlite_sequence, now>>

\* --------------------------------------------------------- registration
\* The argument lists /register is sent with.
RegisterArgs ==
    { <<>>, << <<"0">> >>, << <<"1">> >>, << <<"2">>, <<"1", "s">> >>,
      << <<"1", "S">> >>, << <<"x">>, <<"0", "s">> >>,
      << <<"2", "m">> >>, << <<"1", "h">>, <<"1", "2">> >>,
      << <<"1", "d">>, <<"3">>, <<"1", "x">> >> }

\* The id column declared without AUTOINCREMENT: the new row takes the
\* largest stored id plus one, so the id of a removed last row is given again.
Insert_MaxRowid(h, t0, tok, media, uses_allowed, expires_at) ==
    LET t1 == [t0 EXCEPT !.token = Some(tok)]
        ids == { r.id : r \in movies } \cup {0}
        rowid == (CHOOSE i \in ids : \A j \in ids : j <= i) + 1
    IN
    IF UniqueViolation(movies, tok)
    THEN /\ task' = [task EXCEPT ![h] = Raise(t1, "sqlite3.IntegrityError")]
         /\ UNCHANGED <<movies, sqlite_sequence>>
    ELSE /\ task' = [task EXCEPT ![h] = [t1 EXCEPT !.pc = "get_me"]]
         /\ movies' = add_movie_record(movies, rowid, tok, media,
                                       t0.user, uses_allowed, expires_at)
         /\ sqlite_sequence' = rowid

\* Lines 299-310 and 371-382: the INSERT of the new row under a generated
\* token.  A token already stored raises IntegrityError out of the handler
\* before the commit; otherwise the row is stored and the handler goes on to
\* get_me.
Insert(h, t0, tok, media, uses_allowed, expires_at) ==
    LET t1 == [t0 EXCEPT !.token = Some(tok)] IN
    IF UniqueViolation(movies, tok)
    THEN /\ task' = [task EXCEPT ![h] = Raise(t1, "sqlite3.IntegrityError")]
         /\ UNCHANGED <<movies, sqlite_sequence>>
    ELSE /\ task' = [task EXCEPT ![h] = [t1 EXCEPT !.pc = "get_me"]]
         /\ movies' = add_movie_record(movies, sqlite_sequence + 1, tok, media,
                                       t0.user, uses_allowed, expires_at)
         /\ sqlite_sequence' = sqlite_sequence + 1

\* register_cmd, lines 252-310, up to its first await; reply_to is
\* update.message.reply_to_message, tok what secrets.token_urlsafe returns.
RegisterCmd(h, user, reply_to, args, tok) ==
    /\ Arrives(h)
    /\ LET t0 == [Idle EXCEPT !.handler = "register", !.user = user]
           parsed == parse_args_for_register(args, now)
           media == RegisterMedia(Val(reply_to))
       IN
       IF ~IsAdmin(user) THEN
           /\ task' = [task EXCEPT ![h] = Reply(t0, "Unauthorized.")]
           /\ UNCHANGED <<movies, sqlite_sequence>>
       ELSE IF reply_to = None THEN
           /\ task' = [task EXCEPT ![h] = Reply(t0, "Reply to file and run /register.")]
           /\ UNCHANGED <<movies, sqlite_sequence>>
       ELSE IF media = None THEN
           /\ task' = [task EXCEPT ![h] =
                          Reply(t0, "Reply must contain a file/document.")]
           /\ UNCHANGED <<movies, sqlite_sequence>>
       ELSE Insert(h, t0, tok, Val(media), parsed[1], parsed[2])
    /\ UNCHANGED <<now, cleanups, next_message_id>>

\* Line 329: target.text and target.text.startswith("/")
IsCommandText(text) == text # None /\ Val(text) # <<>> /\ Val(text)[1] = "/"

\* The implicit path storing the default quota of a one-time link.
AutoRegister_SingleUse(h, user, message, tok) ==
    /\ Arrives(h)
    /\ LET t0 == [Idle EXCEPT !.handler = "auto", !.user = user]
           media == AutoMedia(Val(message))
       IN
       IF ~IsAdmin(user) \/ message = None THEN
           /\ task' = [task EXCEPT ![h] = [t0 EXCEPT !.pc = "done"]]
           /\ UNCHANGED <<movies, sqlite_sequence>>
       ELSE IF IsCommandText(Val(message).text) \/ media = None THEN
           /\ task' = [task EXCEPT ![h] = [t0 EXCEPT !.pc = "done"]]
           /\ UNCHANGED <<movies, sqlite_sequence>>
       ELSE Insert(h, t0, tok, Val(media), 1, None)
    /\ UNCHANGED <<now, cleanups, next_message_id>>

\* auto_register_on_admin_message, lines 320-382, up to its first await;
\* message is update.message.
AutoRegister(h, user, message, tok) ==
    /\ Arrives(h)
    /\ LET t0 == [Idle EXCEPT !.handler = "auto", !.user = user]
           media == AutoMedia(Val(message))
       IN
       IF ~IsAdmin(user) \/ message = None THEN
           /\ task' = [task EXCEPT ![h] = [t0 EXCEPT !.pc = "done"]]
           /\ UNCHANGED <<movies, sqlite_sequence>>
       ELSE IF IsCommandText(Val(message).text) \/ media = None THEN
           /\ task' = [task EXCEPT ![h] = [t0 EXCEPT !.pc = "done"]]
           /\ UNCHANGED <<movies, sqlite_sequence>>
       ELSE Insert(h, t0, tok, Val(media), -1, None)
    /\ UNCHANGED <<now, cleanups, next_message_id>>

\* Lines 312-316 and 384-388: get_me and the reply with the deep link return
\* (ok), or one of them raises.
RegisterReplies(h, ok) ==
    /\ task[h].pc = "get_me"
    /\ task' = [task EXCEPT ![h] =
           IF ~ok THEN Raise(@, "telegram.error.TelegramError")
           ELSE IF @.handler = "register" THEN Reply(@, "Registered!")
           ELSE Reply(@, "Auto-registered!")]
    /\ UNCHANGED <<movies, sqlite_sequence, now, cleanups, next_message_id>>

\* ------------------------------------------------------- admin commands
\* list_cmd, lines 392-411.
ListCmd(h, user) ==
    /\ Arrives(h)
    /\ LET t0 == [Idle EXCEPT !.handler = "list", !.user = user] IN
       task' = [task EXCEPT ![h] =
           IF ~IsAdmin(user) THEN Reply(t0, "Unauthorized.")
           ELSE IF list_movies_all(movies) = {} THEN Reply(t0, "No registered movies.")
           ELSE Reply(t0, "id: token: method: name: added: by: uses: used: expires:")]
    /\ UNCHANGED <<movies, sqlite_sequence, now, cleanups, next_message_id>>

\* remove_cmd, lines 414-424.
RemoveCmd(h, user, args) ==
    /\ Arrives(h)
    /\ LET t0 == [Idle EXCEPT !.handler = "remove", !.user = user, !.args = args] IN
       IF ~IsAdmin(user) THEN
           /\ task' = [task EXCEPT ![h] = Reply(t0, "Unauthorized.")]
           /\ UNCHANGED movies
       ELSE IF args = <<>> THEN
           /\ task' = [task EXCEPT ![h] = Reply(t0, "Usage: /remove <token>")]
           /\ UNCHANGED movies
       ELSE
           /\ movies' = remove_movie_by_token(movies, strip(args[1]))
           /\ task' = [task EXCEPT ![h] = Reply(t0, "Removed (if existed).")]
    /\ UNCHANGED <<sqlite_sequence, now, cleanups, next_message_id>>

\* ------------------------------------------------------------ the clock
Tick ==
    /\ now < MaxTime
    /\ now' = now + 1
    /\ UNCHANGED <<movies, sqlite_sequence, task, cleanups, next_message_id>>

\* ---------------------------------------------------- delayed cleanup
\* Line 176: asyncio.sleep(EXPIRY_SECONDS) of cleanup task c returns, the
\* clock having reached the task's wake-up time, and the loop of line 177
\* starts.
SleepReturns(c) ==
    /\ c \in cleanups /\ c.pc = "sleep"
    /\ now' = IF now < c.wake THEN c.wake ELSE now
    /\ cleanups' = (cleanups \ {c}) \cup
           {[c EXCEPT !.pc = IF c.message_ids = <<>> THEN "done" ELSE "delete"]}
    /\ UNCHANGED <<movies, sqlite_sequence, task, next_message_id>>

\* A failed delete_message ending the task: the loop without its try/except.
AfterDelete_FailureEnds(c, ok) ==
    LET mid == c.message_ids[Len(c.attempted) + 1]
        attempted == Append(c.attempted, [message_id |-> mid, deleted |-> ok])
    IN
    [c EXCEPT !.attempted = attempted,
              !.pc = IF ~ok \/ Len(attempted) = Len(c.message_ids)
                     THEN "done" ELSE "delete"]

\* Lines 177-181: cleanup task c after delete_message of its next message
\* id has returned (ok) or raised (swallowed by except Exception: pass).
AfterDelete(c, ok) ==
    LET mid == c.message_ids[Len(c.attempted) + 1]
        attempted == Append(c.attempted, [message_id |-> mid, deleted |-> ok])
    IN
    [c EXCEPT !.attempted = attempted,
              !.pc = IF Len(attempted) = Len(c.message_ids) THEN "done" ELSE "delete"]

\* Line 179: delete_message of cleanup task c returns or raises.
DeleteReturns(c, ok) ==
    /\ c \in cleanups /\ c.pc = "delete"
    /\ cleanups' = (cleanups \ {c}) \cup {AfterDelete(c, ok)}
    /\ UNCHANGED <<movies, sqlite_sequence, now, task, next_message_id>>

\* A step of the cleanup task that the handler of update h created.
CleanupRuns(h) ==
    \E c \in cleanups :
        /\ c.by = h
        /\ (SleepReturns(c) \/ \E ok \in BOOLEAN : DeleteReturns(c, ok))

\* ------------------------------------------------------- specifications
\* The argument lists /start and /remove are sent with.
TokenArgs == {<<>>} \cup { <<t>> : t \in Tokens }

\* None, or one of the messages of M.
Optional(M) == {None} \cup { Some(m) : m \in M }

\* start_cmd never reads the sender, only the chat to answer in: /start is
\* sent by a user who is no admin.
Requesters == Users \ ADMIN_IDS

\* The arrival of update h and the run of its handler up to the first await,
\* the update carrying a message of M and /register an argument list of A.
Dispatch(h, M, A) ==
    \/ \E user \in Requesters, args \in TokenArgs : StartCmd(h, user, args)
    \/ \E user \in Users, reply_to \in Optional(M), args \in A, tok \in Tokens :
          RegisterCmd(h, user, reply_to, args, tok)
    \/ \E user \in Users, message \in Optional(M), tok \in Tokens :
          AutoRegister(h, user, message, tok)
    \/ \E user \in Users : ListCmd(h, user)
    \/ \E user \in Users, args \in TokenArgs : RemoveCmd(h, user, args)

\* A backend call of the handler of update h returns or raises.
Resume(h) ==
    \/ \E ok \in BOOLEAN : ChatActionReturns(h, ok)
    \/ \E ok \in BOOLEAN : DeliverReturns(h, ok)
    \/ \E ok \in BOOLEAN : WarnReturns(h, ok)
    \/ \E ok \in BOOLEAN : RegisterReplies(h, ok)

\* Updates are handled as concurrent tasks of the event loop.
Next ==
    \/ \E h \in Updates : Dispatch(h, CoreMessages, CoreArgs)
    \/ \E h \in Updates : Resume(h)
    \/ Tick

Spec == Init /\ [][Next]_vars

\* Sequential use: an update arrives only when every earlier handler has
\* returned.
NextSeq ==
    \/ \E h \in Updates :
          /\ \A g \in Updates : g < h => Finished(g)
          /\ Dispatch(h, CoreMessages, CoreArgs)
    \/ \E h \in Updates : Resume(h)
    \/ Tick

SpecSeq == Init /\ [][NextSeq]_vars

\* The process keeps running past the wake-up times of its cleanup tasks:
\* Spec stops the clock at MaxTime, long before EXPIRY_SECONDS have passed;
\* here time goes on to each wake-up, and the event loop, which runs every
\* task that is ready, gives each cleanup task its steps.
NextCleanup ==
    \/ Next
    \/ \E h \in Updates : CleanupRuns(h)

SpecCleanup ==
    Init /\ [][NextCleanup]_vars /\ \A h \in Updates : WF_vars(CleanupRuns(h))

\* One registration, of any message under any argument list, next to the
\* rows an earlier run left: the row a registration stores depends on its
\* message, its arguments, the token drawn and the time only.
NextReg ==
    \/ \E user \in Users, reply_to \in Optional(Messages), args \in RegisterArgs,
          tok \in Tokens :
          RegisterCmd(1, user, reply_to, args, tok)
    \/ \E user \in Users, message \in Optional(Messages), tok \in Tokens :
          AutoRegister(1, user, message, tok)
    \/ \E ok \in BOOLEAN : RegisterReplies(1, ok)
    \/ Tick

SpecReg == Init /\ [][NextReg]_vars

\* ================================================================ claims
\* The /start tasks that fetched row number id and whose delivery call
\* returned a sent message.
DeliveredTasks(id) ==
    { h \in Updates : /\ task[h].handler = "start"
                      /\ task[h].row # None
                      /\ Val(task[h].row).id = id
                      /\ task[h].sent_message # None }

\* The /start tasks that fetched row number id and ran their increment.
CountedTasks(id) == { h \in DeliveredTasks(id) : task[h].pc = "done" }

\* Update h arrives in this step and start_cmd handles it with a token.
StartsWithToken(h) ==
    /\ task[h].pc = "idle"
    /\ task'[h].handler = "start"
    /\ task'[h].args # <<>>

\* C1: under sequential redemptions of a token registered with
\* uses_allowed = N >= 0, at most N /start attempts have their delivery
\* succeed (every later one is rejected without delivering) and used_count
\* never exceeds N.
C1_SequentialQuota ==
    \A r \in movies :
        r.uses_allowed >= 0 =>
            /\ r.used_count <= r.uses_allowed
            /\ Cardinality(DeliveredTasks(r.id)) <= r.uses_allowed

\* C2: the increment of a redemption that passed the quota check is applied
\* whatever the stored used_count has become: a handler whose warning was
\* sent adds one to the used_count of its row, also when the row has
\* already reached uses_allowed.
C2_IncrementIgnoresQuota ==
    [][\A h \in Updates :
          (task[h].pc = "warn" /\ task'[h].pc = "done") =>
              \A r \in movies :
                  r.id = Val(task[h].row).id =>
                      [r EXCEPT !.used_count = r.used_count + 1] \in movies']_vars

\* C2 (witness): two /start handlers of one token with uses_allowed = 1 both
\* read used_count = 0, both delivered, and used_count is 2.
C2_OverRedeemed ==
    \E r \in movies, h1, h2 \in Updates :
        /\ h1 # h2
        /\ r.uses_allowed = 1 /\ r.used_count = 2
        /\ {h1, h2} \subseteq CountedTasks(r.id)
        /\ Val(task[h1].row).used_count = 0
        /\ Val(task[h2].row).used_count = 0

\* C3: used_count of a row is at most the number of deliveries of that row
\* that succeeded; a /start whose delivery call failed has replied with the
\* failure message, holds no sent message and has no cleanup task.
C3_CountedUsesWereDelivered ==
    /\ \A r \in movies : r.used_count <= Cardinality(DeliveredTasks(r.id))
    /\ \A h \in Updates :
          (task[h].handler = "start" /\ task[h].call # "" /\ Finished(h)
             /\ task[h].sent_message = None) =>
              /\ task[h].reply = "Failed to deliver file. Contact admin."
              /\ task[h].pc = "done"
              /\ \A c \in cleanups : c.by # h

\* C3 (witness): one /start of a row failed to deliver, another one
\* delivered, and the row counts one use.
C3_FailedDeliveryNotCounted ==
    \E r \in movies, h1, h2 \in Updates :
        /\ task[h1].reply = "Failed to deliver file. Contact admin."
        /\ Val(task[h1].row).id = r.id
        /\ h2 \in CountedTasks(r.id)
        /\ r.used_count = 1

\* C4: every /start whose delivery succeeded and whose handler has ended
\* sent the warning, incremented used_count and scheduled one cleanup of the
\* delivered message and the warning.
C4_DeliveredIsCountedAndCleaned ==
    \A h \in Updates :
        (task[h].handler = "start" /\ task[h].sent_message # None /\ Finished(h)) =>
            /\ task[h].pc = "done"
            /\ task[h].warn # None
            /\ \E c \in cleanups :
                  /\ c.by = h
                  /\ c.message_ids = <<Val(task[h].sent_message), Val(task[h].warn)>>

CopyMode(r) ==
    /\ r.send_method = "copy"
    /\ r.from_chat_id # None /\ r.from_message_id # None
    /\ r.file_id = None

FileMode(r) ==
    /\ r.send_method = "file"
    /\ r.file_id # None
    /\ r.from_chat_id = None /\ r.from_message_id = None

\* C6: every stored row is copy-mode or file-mode, never both and never
\* neither.
C6_CopyModeOrFileMode ==
    \A r \in movies : (CopyMode(r) \/ FileMode(r)) /\ ~(CopyMode(r) /\ FileMode(r))

\* C6 (witness): next to a file-mode row stored by /register, the implicit
\* path has stored a copy-mode row for a forwarded post that carries an
\* attachment.
C6_BothPathsBothModes ==
    /\ \E h \in Updates : task[h].reply = "Auto-registered!"
    /\ \E r1, r2 \in movies :
          /\ FileMode(r1) /\ r1.id = 1
          /\ CopyMode(r2) /\ r2.id = 2 /\ r2.filename = "anim.mp4"

\* No two rows of table m share a token.
TokensUnique(m) == \A r1, r2 \in m : r1.token = r2.token => r1 = r2

\* Update h arrives in this step and a registration handler handles it.
Registers(h) ==
    /\ task[h].pc = "idle"
    /\ task'[h].handler \in {"register", "auto"}

\* C7: no two stored rows share a token; a registration step leaves every
\* stored row in place, and one that drew the token of a stored row fails
\* with the table unchanged.
C7_TokenUnique ==
    [][/\ TokensUnique(movies) /\ TokensUnique(movies')
       /\ \A h \in Updates :
             Registers(h) =>
                 /\ movies \subseteq movies'
                 /\ (/\ task'[h].token # None
                     /\ \E r \in movies : r.token = Val(task'[h].token)) =>
                        /\ movies' = movies
                        /\ sqlite_sequence' = sqlite_sequence
                        /\ task'[h].raised = "sqlite3.IntegrityError"]_vars

\* C7 (witness): a registration failed on a generated token that a stored
\* row holds.
C7_CollisionRefused ==
    \E h \in Updates, r \in movies :
        /\ task[h].handler \in {"register", "auto"}
        /\ task[h].raised = "sqlite3.IntegrityError"
        /\ task[h].token = Some(r.token)

\* C8: /remove <token> by an admin leaves no row with that token and every
\* other row as it was, and replies 'Removed (if existed).' whether or not
\* the token was stored; a /start for a token no row holds replies 'Invalid
\* or expired link.' and delivers nothing; so does every /start of the
\* token that arrives after the /remove with no registration in between.
C8_RemovedIsGone ==
    [][/\ \A h \in Updates :
             (/\ task[h].pc = "idle"
              /\ task'[h].handler = "remove"
              /\ task'[h].user \in ADMIN_IDS
              /\ task'[h].args # <<>>) =>
                 /\ movies' = { r \in movies : r.token # task'[h].args[1] }
                 /\ get_movie_by_token(movies', task'[h].args[1]) = None
                 /\ task'[h].reply = "Removed (if existed)."
       /\ \A h \in Updates :
             (/\ StartsWithToken(h)
              /\ \A r \in movies : r.token # task'[h].args[1]) =>
                 /\ task'[h].reply = "Invalid or expired link."
                 /\ task'[h].pc = "done"
                 /\ task'[h].sent_message = None
       /\ \A h1, h2 \in Updates :
             (/\ h1 < h2
              /\ task'[h1].handler = "remove"
              /\ task'[h1].reply = "Removed (if existed)."
              /\ task'[h2].handler = "start"
              /\ task'[h2].args = task'[h1].args
              /\ \A g \in Updates :
                    (h1 < g /\ g < h2) => task'[g].handler \notin {"register", "auto"}) =>
                 /\ task'[h2].reply = "Invalid or expired link."
                 /\ task'[h2].sent_message = None]_vars

\* C8 (witness): an admin removed the one stored row and a later /start of
\* its token was answered 'Invalid or expired link.'.
C8_StartAfterRemove ==
    \E h1, h2 \in Updates :
        /\ h1 < h2
        /\ task[h1].reply = "Removed (if existed)."
        /\ task[h2].handler = "start"
        /\ task[h2].args = task[h1].args
        /\ task[h2].reply = "Invalid or expired link."
        /\ sqlite_sequence = 1 /\ movies = {}

\* C9: /register, /list and /remove from a sender who is no admin are
\* answered 'Unauthorized.' with the table unchanged, a message of such a
\* sender registers nothing, and the set of stored rows changes only in a
\* step of /register, the implicit path or /remove run for an admin.
C9_AdminOnly ==
    [][/\ \A h \in Updates :
             (task[h].pc = "idle" /\ task'[h].pc # "idle"
                /\ task'[h].user \notin ADMIN_IDS) =>
                 /\ task'[h].handler \in {"register", "list", "remove"} =>
                        task'[h].reply = "Unauthorized." /\ task'[h].pc = "done"
                 /\ task'[h].handler \in {"register", "list", "remove", "auto"} =>
                        movies' = movies
       /\ { r.id : r \in movies' } # { r.id : r \in movies } =>
             \E h \in Updates :
                 /\ task[h].pc = "idle"
                 /\ task'[h].handler \in {"register", "auto", "remove"}
                 /\ task'[h].user \in ADMIN_IDS]_vars

\* C9 (witness): a sender who is no admin sent /remove for a stored token,
\* was answered 'Unauthorized.', and the row is still there.
C9_StrangerRefused ==
    \E h \in Updates :
        /\ task[h].handler = "remove"
        /\ task[h].user \notin ADMIN_IDS
        /\ task[h].reply = "Unauthorized."
        /\ task[h].args # <<>>
        /\ \E r \in movies : r.token = task[h].args[1]

\* The replies that end a /start for a missing, expired or exhausted token.
Rejections ==
    { "Invalid or expired link.", "Sorry - this link expired.",
      "Sorry - link used maximum times." }

HasAttachment(m) ==
    m.document # None \/ m.video # None \/ m.animation # None \/ m.audio # None

HasForwardOrigin(m) == m.forward_from_chat # None /\ m.forward_from_message_id # None

\* C11: a registration by an admin against a message with no attachment and
\* no forwarded-channel origin stores nothing: /register is answered 'Reply
\* must contain a file/document.', the implicit path returns without a
\* reply; /register that is not a reply stores nothing and is answered with
\* the usage text.
C11_NoMediaNoRecord ==
    [][\A h \in Updates :
          Registers(h) => \A user \in ADMIN_IDS, tok \in Tokens :
          /\ \A m \in Messages :
                (~HasAttachment(m) /\ ~HasForwardOrigin(m)) =>
                    /\ \A args \in RegisterArgs :
                          RegisterCmd(h, user, Some(m), args, tok) =>
                              /\ movies' = movies
                              /\ sqlite_sequence' = sqlite_sequence
                              /\ task'[h].pc = "done"
                              /\ task'[h].reply = "Reply must contain a file/document."
                    /\ AutoRegister(h, user, Some(m), tok) =>
                          /\ movies' = movies
                          /\ sqlite_sequence' = sqlite_sequence
                          /\ task'[h].pc = "done"
                          /\ task'[h].reply = ""
          /\ \A args \in RegisterArgs :
                RegisterCmd(h, user, None, args, tok) =>
                    /\ movies' = movies
                    /\ sqlite_sequence' = sqlite_sequence
                    /\ task'[h].pc = "done"
                    /\ task'[h].reply = "Reply to file and run /register."]_vars

\* C11 (witness): an admin's /register in reply to a message without media
\* was refused, and the table holds what it held before: nothing.
C11_RefusedWithoutMedia ==
    \E h \in Updates :
        /\ task[h].handler = "register"
        /\ task[h].user \in ADMIN_IDS
        /\ task[h].reply = "Reply must contain a file/document."
        /\ movies = {} /\ sqlite_sequence = 0

\* C12 (as stated): the record get_movie_by_token returns after
\* add_movie_record equals the input in send_method, file_id, from_chat_id,
\* from_message_id, filename, added_by, uses_allowed and expires_at, with
\* used_count = 0.
C12_RoundTripWithAddedBy ==
    [][\A h \in Updates :
          (Registers(h) /\ movies' # movies) =>
          \A user \in ADMIN_IDS, tok \in Tokens, m \in Messages, args \in RegisterArgs :
          RegisterCmd(h, user, Some(m), args, tok) =>
              LET got == get_movie_by_token(movies', tok)
                  media == Val(RegisterMedia(m))
                  parsed == parse_args_for_register(args, now)
              IN
              /\ got # None
              /\ Val(got).send_method = media.send_method
              /\ Val(got).file_id = media.file_id
              /\ Val(got).from_chat_id = media.from_chat_id
              /\ Val(got).from_message_id = media.from_message_id
              /\ Val(got).filename = media.filename
              /\ "added_by" \in DOMAIN Val(got)
              /\ Val(got).added_by = user
              /\ Val(got).uses_allowed = parsed[1]
              /\ Val(got).expires_at = parsed[2]
              /\ Val(got).used_count = 0]_vars

\* C12: the record get_movie_by_token returns after add_movie_record equals
\* the input in send_method, file_id, from_chat_id, from_message_id,
\* filename, uses_allowed and expires_at, with used_count = 0 and the token
\* asked for; it has no added_by, which the stored row keeps and only
\* list_movies_all selects.
C12_RoundTrip ==
    [][\A h \in Updates :
          (Registers(h) /\ movies' # movies) =>
          \A user \in ADMIN_IDS, tok \in Tokens, m \in Messages, args \in RegisterArgs :
          RegisterCmd(h, user, Some(m), args, tok) =>
              LET got == get_movie_by_token(movies', tok)
                  media == Val(RegisterMedia(m))
                  parsed == parse_args_for_register(args, now)
              IN
              /\ got # None
              /\ Val(got).token = tok
              /\ Val(got).send_method = media.send_method
              /\ Val(got).file_id = media.file_id
              /\ Val(got).from_chat_id = media.from_chat_id
              /\ Val(got).from_message_id = media.from_message_id
              /\ Val(got).filename = media.filename
              /\ Val(got).uses_allowed = parsed[1]
              /\ Val(got).expires_at = parsed[2]
              /\ Val(got).used_count = 0
              /\ "added_by" \notin DOMAIN Val(got)
              /\ \E r \in list_movies_all(movies') :
                    r.id = Val(got).id /\ r.added_by = user]_vars

\* C12 (witness): a copy-mode record with a quota and an expiry was stored
\* next to an older row and is what the lookup of its token returns.
C12_StoredThenFound ==
    \E h \in Updates :
        /\ task[h].handler = "register"
        /\ task[h].token # None
        /\ Cardinality(movies) = 2
        /\ LET got == get_movie_by_token(movies, Val(task[h].token)) IN
           /\ got # None
           /\ Val(got).id = sqlite_sequence
           /\ Val(got).send_method = "copy"
           /\ Val(got).uses_allowed = 2
           /\ Val(got).expires_at # None

\* The two argument forms: a bare non-negative integer, and
\* <integer><unit> with unit one of s, m, h, d; the seconds of the latter.
BareInteger(a) == a # <<>> /\ \A i \in 1..Len(a) : a[i] \in Digits

IntegerUnit(a) ==
    /\ Len(a) >= 2
    /\ BareInteger(SubSeq(a, 1, Len(a) - 1))
    /\ a[Len(a)] \in {"s", "m", "h", "d"}

Seconds(a) ==
    int(SubSeq(a, 1, Len(a) - 1)) *
        (CASE a[Len(a)] = "s" -> 1 [] a[Len(a)] = "m" -> 60
           [] a[Len(a)] = "h" -> 3600 [] OTHER -> 86400)

\* The position of the last argument of args that has form F, 0 if none has.
LastOf(args, F(_)) ==
    LET I == { i \in 1..Len(args) : F(args[i]) } IN
    IF I = {} THEN 0 ELSE CHOOSE i \in I : \A j \in I : j <= i

\* C13: the record /register stores has uses_allowed equal to the last
\* argument that is a bare non-negative integer, -1 if there is none, and
\* expires_at equal to now plus the duration of the last argument of the form
\* <integer><unit>, for every non-negative integer, absent if there is none;
\* no other argument changes either value.
C13_ParseArgs ==
    [][\A h \in Updates :
          (Registers(h) /\ movies' # movies) =>
          \A user \in ADMIN_IDS, tok \in Tokens, m \in Messages, args \in RegisterArgs :
          RegisterCmd(h, user, Some(m), args, tok) =>
              \A r \in movies' \ movies :
                  /\ r.uses_allowed =
                        IF LastOf(args, BareInteger) = 0 THEN -1
                        ELSE int(args[LastOf(args, BareInteger)])
                  /\ r.expires_at =
                        IF LastOf(args, IntegerUnit) = 0 THEN None
                        ELSE Some(isoformat(now + Seconds(args[LastOf(args, IntegerUnit)])))]_vars

\* The delivery fields of a row.
MediaOf(r) ==
    Media(r.send_method, r.file_id, r.from_chat_id, r.from_message_id, r.filename)

\* The first attachment of message m in the order document, video,
\* animation, audio.
FirstAttachment(m) ==
    IF m.document # None THEN m.document
    ELSE IF m.video # None THEN m.video
    ELSE IF m.animation # None THEN m.animation
    ELSE m.audio

\* Update h arrives in this step as a registration of message m by an admin,
\* on either path, and the step stores a row.
RegistersMessage(h, m) ==
    /\ Registers(h)
    /\ movies' # movies
    /\ \E user \in ADMIN_IDS, tok \in Tokens :
          \/ \E args \in RegisterArgs : RegisterCmd(h, user, Some(m), args, tok)
          \/ AutoRegister(h, user, Some(m), tok)

\* C14: a registration, on either path, of a message with a forward-origin
\* chat and a forward-origin message id stores a copy-mode row holding that
\* chat id and message id and no file id, also when the message carries an
\* attachment; of any other message it stores a file-mode row holding the
\* file id of the first attachment in the order document, video, animation,
\* audio; and the delivery fields of the row are those either path computes
\* from the message.
C14_ModeSelection ==
    [][\A h \in Updates :
          (Registers(h) /\ movies' # movies) => \A m \in Messages :
          RegistersMessage(h, m) =>
              \A r \in movies' \ movies :
                  /\ HasForwardOrigin(m) =>
                        /\ r.send_method = "copy"
                        /\ r.from_chat_id = Some(Val(m.forward_from_chat).id)
                        /\ r.from_message_id = m.forward_from_message_id
                        /\ r.file_id = None
                  /\ ~HasForwardOrigin(m) =>
                        /\ r.send_method = "file"
                        /\ r.file_id = Some(Val(FirstAttachment(m)).file_id)
                        /\ r.from_chat_id = None /\ r.from_message_id = None
                  /\ MediaOf(r) = Val(RegisterMedia(m))
                  /\ MediaOf(r) = Val(AutoMedia(m))]_vars

\* C14 (witness): /register stored a copy-mode row for a forwarded channel
\* post that carries a named document.
C14_ForwardedDocumentCopied ==
    \E h \in Updates, r \in movies :
        /\ task[h].handler = "register"
        /\ task[h].token = Some(r.token)
        /\ r.send_method = "copy"
        /\ r.from_chat_id = Some(-1001) /\ r.from_message_id = Some(77)
        /\ r.filename = "movie.mkv"

\* The default filename of the type of the first attachment of message m.
DefaultName(m) ==
    IF m.document # None THEN "file"
    ELSE IF m.video # None THEN "video.mp4"
    ELSE IF m.animation # None THEN "animation.mp4"
    ELSE "audio"

\* C15: the filename of a file-mode row is the name of the attachment when
\* it has one, else the caption of the message when it has one, else the
\* default of the attachment's type.
C15_FilenameFallback ==
    [][\A h \in Updates :
          (Registers(h) /\ movies' # movies) => \A m \in Messages :
          (~HasForwardOrigin(m) /\ RegistersMessage(h, m)) =>
              \A r \in movies' \ movies :
                  r.filename =
                      IF Val(FirstAttachment(m)).file_name # None
                      THEN Val(Val(FirstAttachment(m)).file_name)
                      ELSE IF m.caption # None THEN Val(m.caption)
                      ELSE DefaultName(m)]_vars

\* A message the implicit path registers: no command text, and an attachment
\* or a forwarded-channel origin.
UsableMedia(m) ==
    /\ ~(m.text # None /\ Val(m.text)[1] = "/")
    /\ (HasAttachment(m) \/ HasForwardOrigin(m))

\* What the row stored for message m by the implicit path has to be.
ImplicitRow(r, m) ==
    /\ r.uses_allowed = -1
    /\ r.expires_at = None
    /\ (HasForwardOrigin(m) /\ m.video # None) => r.send_method = "copy"

\* C16 (as stated): every message of an admin that is no command and
\* carries usable media makes the implicit path store exactly one row, with
\* uses_allowed = -1 and no expires_at, copy-mode for a forwarded channel
\* post with a video.
C16_ImplicitAlwaysRegisters ==
    [][\A h \in Updates :
          Registers(h) => \A user \in ADMIN_IDS, tok \in Tokens, m \in Messages :
          (UsableMedia(m) /\ AutoRegister(h, user, Some(m), tok)) =>
              /\ movies \subseteq movies'
              /\ Cardinality(movies' \ movies) = 1
              /\ \A r \in movies' \ movies : ImplicitRow(r, m)]_vars

\* C16: every message of an admin that is no command and carries usable
\* media makes the implicit path store exactly one row, with
\* uses_allowed = -1 and no expires_at, copy-mode for a forwarded channel
\* post with a video, unless the token generated for it is the token of a
\* stored row: then the INSERT raises, the handler ends and nothing is stored.
\* Every row a step of the implicit path stores has uses_allowed = -1 and no
\* expires_at.
C16_ImplicitRegisters ==
    [][/\ \A h \in Updates :
             Registers(h) => \A user \in ADMIN_IDS, tok \in Tokens, m \in Messages :
             (UsableMedia(m) /\ AutoRegister(h, user, Some(m), tok)) =>
                 IF \E r \in movies : r.token = tok
                 THEN /\ movies' = movies
                      /\ task'[h].raised = "sqlite3.IntegrityError"
                 ELSE /\ movies \subseteq movies'
                      /\ Cardinality(movies' \ movies) = 1
                      /\ \A r \in movies' \ movies : r.token = tok /\ ImplicitRow(r, m)
       /\ \A h \in Updates :
             (task[h].pc = "idle" /\ task'[h].handler = "auto") =>
                 \A r \in movies' \ movies :
                     r.uses_allowed = -1 /\ r.expires_at = None]_vars

\* C16 (witness): an admin forwarded a channel post with a video, without a
\* command, and the implicit path answered with the link of a copy-mode row
\* without quota and expiry.
C16_ForwardedVideoRegistered ==
    \E h \in Updates, r \in movies :
        /\ task[h].handler = "auto"
        /\ task[h].reply = "Auto-registered!"
        /\ task[h].token = Some(r.token)
        /\ r.send_method = "copy" /\ r.file_id = None
        /\ r.from_chat_id = Some(-1001) /\ r.from_message_id = Some(77)
        /\ r.filename = "file"
        /\ r.uses_allowed = -1 /\ r.expires_at = None

\* The handler of update h runs its increment in this step, after a
\* delivery that succeeded.
Increments(h) ==
    /\ task[h].pc = "warn" /\ task'[h].pc = "done"
    /\ task[h].sent_message # None

\* Update h arrives in this step as /remove <token> of an admin.
Removes(h, token) ==
    /\ task[h].pc = "idle"
    /\ task'[h].handler = "remove"
    /\ task'[h].user \in ADMIN_IDS
    /\ task'[h].args # <<>> /\ task'[h].args[1] = token

\* C17: in every step every stored row either stays with all its fields but
\* used_count, which stays or grows by one, and grows only in the increment
\* of a /start that fetched this row and delivered; or it leaves the table in
\* the step of an admin's /remove of its token.  A tick of the clock and a
\* rejected /start change no row.
C17_RecordLifecycle ==
    [][\A r \in movies :
          \/ /\ \A q \in movies' : q.id # r.id
             /\ \E h \in Updates : Removes(h, r.token)
          \/ /\ \E q \in movies' :
                   /\ q.id = r.id
                   /\ [q EXCEPT !.used_count = r.used_count] = r
                   /\ q.used_count \in {r.used_count, r.used_count + 1}
                   /\ q.used_count # r.used_count =>
                         \E h \in Updates :
                             Increments(h) /\ Val(task[h].row).id = r.id
             /\ (now' # now \/ \E h \in Updates : task'[h].reply \in Rejections
                                                  /\ task[h].pc = "idle") =>
                   r \in movies']_vars

\* C17 (witness): a row whose expiry has passed and whose quota is used up
\* is still stored, with the fields it was registered with.
C17_InertRowKept ==
    \E r \in movies, h \in Updates :
        /\ r.expires_at # None /\ Val(r.expires_at).iso < now
        /\ r.uses_allowed = 1 /\ r.used_count = 1
        /\ h \in CountedTasks(r.id)
        /\ [r EXCEPT !.used_count = 0] = Val(task[h].row)
                                         @@ [added_by |-> r.added_by]

\* The message ids cleanup task c has tried to delete, in order.
AttemptedIds(c) == [i \in 1..Len(c.attempted) |-> c.attempted[i].message_id]

\* C18: the handler that scheduled a cleanup has ended while the cleanup
\* still sleeps; no delete is attempted before the delay has elapsed; every
\* scheduled cleanup eventually has attempted the delete of each of its
\* message ids, in order, whatever the outcome of each delete; and no step of
\* a cleanup task changes a handler.
C18_CleanupDetached ==
    /\ [](\A c \in cleanups :
             /\ task[c.by].pc = "done"
             /\ c.attempted # <<>> => now >= c.wake
             /\ AttemptedIds(c) = SubSeq(c.message_ids, 1, Len(c.attempted)))
    /\ \A h \in Updates :
          (\E c \in cleanups : c.by = h)
              ~> (\E c \in cleanups :
                     /\ c.by = h /\ c.pc = "done"
                     /\ AttemptedIds(c) = c.message_ids
                     /\ c.message_ids = <<Val(task[h].sent_message), Val(task[h].warn)>>)
    /\ [][(\E c \in cleanups : c \notin cleanups') => task' = task]_vars

\* C18 (witness): a cleanup has ended after its first delete failed and its
\* second one was made, and its handler had ended before the delay elapsed.
C18_FailedDeleteThenNext ==
    \E c \in cleanups :
        /\ c.pc = "done"
        /\ Len(c.attempted) = 2
        /\ ~c.attempted[1].deleted /\ c.attempted[2].deleted
        /\ task[c.by].pc = "done" /\ task[c.by].raised = ""
        /\ c.wake = EXPIRY_SECONDS /\ now = c.wake

\* C19: under every interleaving the used_count of a stored row is the
\* number of /start handlers that fetched this row and have run their
\* increment, whatever count each of them read at its lookup.
C19_NoLostIncrement ==
    \A r \in movies : r.used_count = Cardinality(CountedTasks(r.id))

\* C19 (witness): two /start handlers of a row without quota both read
\* used_count = 0 before either incremented, and the row counts 2.
C19_BothIncrementsCounted ==
    \E r \in movies, h1, h2 \in Updates :
        /\ h1 # h2
        /\ r.uses_allowed = -1 /\ r.used_count = 2
        /\ CountedTasks(r.id) = {h1, h2}
        /\ Val(task[h1].row).used_count = 0
        /\ Val(task[h2].row).used_count = 0

\* The ids of the rows of table m.
Ids(m) == { r.id : r \in m }

====
